---- MODULE Spec2Model ----
(***************************************************************************)
(* Model of the query-time redaction pipeline of FinalRag:                 *)
(*   services/rag_pipeline/pii_masker.py  (masking + mapping store)        *)
(*   services/rag_pipeline/pipeline.py    (RAGPipeline.process_query)      *)
(* and of the two handlers around it:                                      *)
(*   api/query.py      (the /query endpoint and its chat log)              *)
(*   api/documents.py  (process_document_background)                       *)
(* Texts are sequences of one-character strings; offsets are 0-based and   *)
(* ranges half-open, as in Python.                                         *)
(***************************************************************************)
EXTENDS Integers, Sequences, FiniteSets, TLC

VARIABLES
    file,              \* mappings/entity_mappings.json on disk
    pc,                \* position of the (single) calling thread
    calls,             \* process_query calls started so far
    retrieved_chunks,  \* pipeline.py: the raw retrieved text (masker's argument)
    doc_ents,          \* pii_masker_func: doc.ents as returned by nlp(text)
    matches,           \* pii_masker_func: what the re.finditer loops of step 2 yield
    text,              \* pii_masker_func: local `text`, rewritten in step 3
    entity_counter,    \* pii_masker_func: per-label counters
    entity_map,        \* pii_masker_func: surface text -> placeholder
    entities,          \* pii_masker_func: accepted spans, in acceptance order
    existing_spans,    \* pii_masker_func: occupied (start, end) ranges
    idx,               \* loop index of the phase the masker is in (1-based)
    masked_chunks,     \* pipeline.py: value returned by pii_masker_func
    exc,               \* exception raised in the current call ("none" if none)
    result,            \* dict returned by process_query
    loaded,            \* outcome of the last load_mapping_from_file call
    steps,             \* pipeline.py: the steps process_query has invoked, in order
    context,           \* llm_answerer.py: inputs["context"] of the last invocation
    spc,               \* save_mapping_to_file: position of each concurrent caller
    sarg,              \* save_mapping_to_file: each caller's argument entity_map
    mapping_data,      \* save_mapping_to_file: each caller's local mapping_data
    alone,             \* the caller's call has overlapped with no other save
    observed,          \* what the last read of the store file found there
    last_save,         \* the last save_mapping_to_file call that returned
    qpc,               \* api/query.py: position of the /query request
    chat_log_id,       \* api/query.py: local chat_log_id (0: not in locals())
    chat_logs,         \* per saved user message, the update_chat_log_response calls
    http_status,       \* api/query.py: status code the request ended with (0: none yet)
    document_status,   \* document_service.document_status: doc_id -> status
    dpc,               \* api/documents.py: position of process_document_background
    local_file,        \* the uploaded file at file_path
    storage,           \* the object at storage_path in the storage bucket
    doc_done           \* which steps of the background task have succeeded

storevars == <<spc, sarg, mapping_data, alone, observed, last_save>>

queryvars == <<qpc, chat_log_id, chat_logs, http_status>>

docvars == <<document_status, dpc, local_file, storage, doc_done>>

apivars == <<queryvars, docvars>>

\* The state of everything but the query pipeline and the masker
othervars == <<storevars, apivars>>

vars == <<file, pc, calls, retrieved_chunks, doc_ents, matches, text, entity_counter,
          entity_map, entities, existing_spans, idx, masked_chunks, exc,
          result, loaded, steps, context, othervars>>

maskvars == <<doc_ents, matches, text, entity_counter, entity_map, entities,
              existing_spans, idx>>

(***************************************************************************)
(* Bounds of the exploration.                                              *)
(***************************************************************************)
MaxTokens == 2     \* words per text handed directly to pii_masker_func
MaxEnts == 2       \* spans the statistical detector returns per text
MaxCalls == 2      \* process_query calls in a run

\* The words texts are built from: two percentages, a ratio and a blank.
Words == { <<"1", "%">>, <<"2", "%">>, <<"1", "x">>, <<" ">> }

RECURSIVE Texts(_)
Texts(n) ==
    IF n = 0 THEN { <<>> }
    ELSE Texts(n - 1) \cup { t \o w : t \in Texts(n - 1), w \in Words }

\* The chunks the retriever can hand to the pipeline: one word or nothing.
Chunks == Texts(1)

Min(a, b) == IF a < b THEN a ELSE b

(***************************************************************************)
(* Python string primitives.                                               *)
(***************************************************************************)
\* text[i] for a 0-based i, "" past the end
At(t, i) == IF i >= 0 /\ i < Len(t) THEN t[i + 1] ELSE ""

\* text[a:b] with Python's clamping of out-of-range bounds (a, b >= 0)
PySlice(t, a, b) == SubSeq(t, Min(a, Len(t)) + 1, Min(b, Len(t)))

IsSpace(c) == c \in { " ", "\t", "\n", "\r" }
IsDigit(c) == c \in { "0", "1", "2", "3", "4", "5", "6", "7", "8", "9" }

RECURSIVE LStrip(_)
LStrip(t) == IF Len(t) > 0 /\ IsSpace(t[1]) THEN LStrip(Tail(t)) ELSE t

RECURSIVE RStrip(_)
RStrip(t) ==
    IF Len(t) > 0 /\ IsSpace(t[Len(t)]) THEN RStrip(SubSeq(t, 1, Len(t) - 1)) ELSE t

\* str.strip()
Strip(t) == RStrip(LStrip(t))

\* text.startswith(w, i)
StartsWith(t, i, w) ==
    /\ i + Len(w) <= Len(t)
    /\ \A k \in 1..Len(w) : t[i + k] = w[k]

DigitChar == << "0", "1", "2", "3", "4", "5", "6", "7", "8", "9" >>

\* str(n) for n >= 0
RECURSIVE IntToStr(_)
IntToStr(n) ==
    IF n < 10 THEN << DigitChar[n + 1] >>
    ELSE IntToStr(n \div 10) \o << DigitChar[(n % 10) + 1] >>

(***************************************************************************)
(* Labels and placeholders.                                                *)
(***************************************************************************)
StatLabels == { "CARDINAL", "MONEY", "PERCENT" }
RegexLabels == << "CURRENCY_RANGE", "RATIO", "PERCENT", "PERCENT_POINT" >>
Labels == StatLabels \cup { RegexLabels[r] : r \in 1..Len(RegexLabels) }

\* Labels the recogniser attaches to spans in the explored runs: two of the
\* labels the masker keeps, and DATE for every label the masker ignores.
SpacyLabels == { "MONEY", "PERCENT", "DATE" }

LabelChars(l) ==
    CASE l = "CARDINAL" -> << "C", "A", "R", "D", "I", "N", "A", "L" >>
      [] l = "MONEY" -> << "M", "O", "N", "E", "Y" >>
      [] l = "PERCENT" -> << "P", "E", "R", "C", "E", "N", "T" >>
      [] l = "CURRENCY_RANGE" ->
            << "C", "U", "R", "R", "E", "N", "C", "Y", "_", "R", "A", "N", "G", "E" >>
      [] l = "RATIO" -> << "R", "A", "T", "I", "O" >>
      [] l = "PERCENT_POINT" ->
            << "P", "E", "R", "C", "E", "N", "T", "_", "P", "O", "I", "N", "T" >>

\* f"[{ent_label}_{entity_counter[ent_label]}]"
Placeholder(l, n) == << "[" >> \o LabelChars(l) \o << "_" >> \o IntToStr(n) \o << "]" >>

EmptyMap == [ t \in {} |-> <<>> ]

ZeroCounter == [ l \in Labels |-> 0 ]

(***************************************************************************)
(* Step 2 of pii_masker_func: the four rules of regex_patterns, matched as *)
(* Python's re does (leftmost, greedy, alternatives in order).  Each       *)
(* Match... operator gives the end offset of the rule's match starting at  *)
(* offset i, or -1 when the rule does not match there.                     *)
(***************************************************************************)
\* The character U+2013 of the CURRENCY_RANGE rule, as one symbol
EnDash == "EN DASH"

\* \d+ (greedy): offset after the run of digits starting at i
RECURSIVE DigitsEnd(_, _)
DigitsEnd(t, i) == IF IsDigit(At(t, i)) THEN DigitsEnd(t, i + 1) ELSE i

\* (?:\.\d+)? starting at j
OptFrac(t, j) ==
    IF At(t, j) = "." /\ IsDigit(At(t, j + 1)) THEN DigitsEnd(t, j + 1) ELSE j

\* \d+(?:\.\d+)? starting at i; -1 when there is no digit at i
Number(t, i) == IF IsDigit(At(t, i)) THEN OptFrac(t, DigitsEnd(t, i)) ELSE -1

\* [+-]? starting at i
OptSign(t, i) == IF At(t, i) \in { "+", "-" } THEN i + 1 ELSE i

\* \s? starting at i
OptSpace(t, i) == IF IsSpace(At(t, i)) THEN i + 1 ELSE i

\* US?\s?\$?\s?\d+(?:\.\d+)?(?:<en dash>|-)\d+(?:\.\d+)?\s?(million|billion|M|B)
MatchCurrencyRange(t, i) ==
    IF At(t, i) # "U" THEN -1
    ELSE
        LET a == IF At(t, i + 1) = "S" THEN i + 2 ELSE i + 1
            b == OptSpace(t, a)
            c == IF At(t, b) = "$" THEN b + 1 ELSE b
            d == OptSpace(t, c)
            n1 == Number(t, d)
        IN  IF n1 = -1 \/ At(t, n1) \notin { EnDash, "-" } THEN -1
            ELSE
                LET n2 == Number(t, n1 + 1)
                IN  IF n2 = -1 THEN -1
                    ELSE
                        LET u == OptSpace(t, n2)
                            Unit(v) ==
                                IF StartsWith(t, v, << "m", "i", "l", "l", "i", "o", "n" >>)
                                    THEN v + 7
                                ELSE IF StartsWith(t, v, << "b", "i", "l", "l", "i", "o", "n" >>)
                                    THEN v + 7
                                ELSE IF At(t, v) \in { "M", "B" } THEN v + 1
                                ELSE -1
                        IN  IF Unit(u) # -1 THEN Unit(u) ELSE Unit(n2)

\* (?:\d+|\d*\.\d+)x
MatchRatio(t, i) ==
    LET d == DigitsEnd(t, i)
    IN  IF d > i /\ At(t, d) = "x" THEN d + 1
        ELSE IF At(t, d) = "." /\ IsDigit(At(t, d + 1))
                  /\ At(t, DigitsEnd(t, d + 1)) = "x"
            THEN DigitsEnd(t, d + 1) + 1
        ELSE -1

\* [+-]?\d+(?:\.\d+)?%
MatchPercent(t, i) ==
    LET n == Number(t, OptSign(t, i))
    IN  IF n # -1 /\ At(t, n) = "%" THEN n + 1 ELSE -1

\* [+-]?\d+(?:\.\d+)?\s?(ppt|ppts)
MatchPercentPoint(t, i) ==
    LET n == Number(t, OptSign(t, i))
        Ppt(v) == IF StartsWith(t, v, << "p", "p", "t" >>) THEN v + 3 ELSE -1
    IN  IF n = -1 THEN -1
        ELSE IF Ppt(OptSpace(t, n)) # -1 THEN Ppt(OptSpace(t, n)) ELSE Ppt(n)

\* re.match of rule r (index into regex_patterns) at offset i
MatchEnd(r, t, i) ==
    CASE r = 1 -> MatchCurrencyRange(t, i)
      [] r = 2 -> MatchRatio(t, i)
      [] r = 3 -> MatchPercent(t, i)
      [] r = 4 -> MatchPercentPoint(t, i)

\* re.finditer(regex["pattern"], text): the non-overlapping matches, left to right
RECURSIVE FindIter(_, _, _)
FindIter(r, t, pos) ==
    IF pos >= Len(t) THEN <<>>
    ELSE IF MatchEnd(r, t, pos) # -1
        THEN << [label |-> RegexLabels[r], start |-> pos, end |-> MatchEnd(r, t, pos)] >>
                 \o FindIter(r, t, MatchEnd(r, t, pos))
    ELSE FindIter(r, t, pos + 1)

\* A slip in step 2: the matches of all rules are taken together, left to right
RECURSIVE InsertByStart(_, _)
InsertByStart(sorted, m) ==
    IF sorted = <<>> THEN << m >>
    ELSE IF Head(sorted).start <= m.start
        THEN << Head(sorted) >> \o InsertByStart(Tail(sorted), m)
    ELSE << m >> \o sorted

RECURSIVE SortByStart(_)
SortByStart(ms) ==
    IF ms = <<>> THEN <<>>
    ELSE InsertByStart(SortByStart(SubSeq(ms, 1, Len(ms) - 1)), ms[Len(ms)])

RegexMatchesByPosition(t) ==
    SortByStart(FindIter(1, t, 0) \o FindIter(2, t, 0) \o FindIter(3, t, 0)
                    \o FindIter(4, t, 0))

\* The matches in the order the two nested loops of step 2 visit them
RegexMatches(t) ==
    FindIter(1, t, 0) \o FindIter(2, t, 0) \o FindIter(3, t, 0) \o FindIter(4, t, 0)

(***************************************************************************)
(* The statistical detector, nlp(text).ents: a black box.  What the masker *)
(* relies on is the library's contract for doc.ents: non-empty spans, in   *)
(* document order, no two overlapping.                                     *)
(***************************************************************************)
RECURSIVE EntLists(_, _, _)
EntLists(pos, len, n) ==
    { <<>> } \cup
    ( IF n = 0 THEN {}
      ELSE UNION { UNION { { << [label |-> l, start |-> s, end |-> e] >> \o rest :
                                 l \in SpacyLabels, rest \in EntLists(e, len, n - 1) } :
                           e \in (s + 1)..len } :
                   s \in pos..(len - 1) } )

(***************************************************************************)
(* pii_masker_func, steps 1-3.                                             *)
(***************************************************************************)
\* A slip in the overlap test: only a match lying inside an occupied range counts
OverlapsContained(start, end, s, e) == start >= s /\ end <= e

\* The overlap test of step 2: not (end <= s or start >= e)
Overlaps(start, end, s, e) == ~(end <= s \/ start >= e)

\* A slip in the overlap scan: all(...) where any(...) is meant
OverlapsAll(start, end, spans) ==
    \A k \in 1..Len(spans) : Overlaps(start, end, spans[k][1], spans[k][2])

\* any(not (end <= s or start >= e) for s, e in existing_spans)
OverlapsAny(start, end, spans) ==
    \E k \in 1..Len(spans) : Overlaps(start, end, spans[k][1], spans[k][2])

\* A slip in the allocator: the membership test is missing
AllocateAlways(map, counter, ent_text, ent_label) ==
    LET c == [counter EXCEPT ![ent_label] = @ + 1]
    IN  [map |-> [ t \in DOMAIN map \cup { ent_text } |->
                     IF t = ent_text THEN Placeholder(ent_label, c[ent_label])
                     ELSE map[t] ],
         counter |-> c]

\* A slip in the allocator: the placeholder is formatted before the increment
AllocatePostIncrement(map, counter, ent_text, ent_label) ==
    IF ent_text \in DOMAIN map
    THEN [map |-> map, counter |-> counter]
    ELSE [map |-> map @@ (ent_text :> Placeholder(ent_label, counter[ent_label])),
          counter |-> [counter EXCEPT ![ent_label] = @ + 1]]

\* A slip in the allocator: one number sequence shared by all labels
AllocateSharedCounter(map, counter, ent_text, ent_label) ==
    IF ent_text \in DOMAIN map
    THEN [map |-> map, counter |-> counter]
    ELSE LET c == [ l \in Labels |-> counter[l] + 1 ]
         IN  [map |-> map @@ (ent_text :> Placeholder(ent_label, c[ent_label])),
              counter |-> c]

\* if ent_text not in entity_map: bump the label's counter, format, insert
Allocate(map, counter, ent_text, ent_label) ==
    IF ent_text \in DOMAIN map
    THEN [map |-> map, counter |-> counter]
    ELSE LET c == [counter EXCEPT ![ent_label] = @ + 1]
         IN  [map |-> map @@ (ent_text :> Placeholder(ent_label, c[ent_label])),
              counter |-> c]

\* A slip in step 3: reverse=True is missing, the spans are taken left to right
RECURSIVE InsertAsc(_, _)
InsertAsc(sorted, e) ==
    IF sorted = <<>> THEN << e >>
    ELSE IF Head(sorted).start <= e.start
        THEN << Head(sorted) >> \o InsertAsc(Tail(sorted), e)
    ELSE << e >> \o sorted

RECURSIVE SortedAscending(_)
SortedAscending(es) ==
    IF es = <<>> THEN <<>>
    ELSE InsertAsc(SortedAscending(SubSeq(es, 1, Len(es) - 1)), es[Len(es)])

\* sorted(entities, key=lambda x: x['start'], reverse=True): a stable sort
RECURSIVE InsertDesc(_, _)
InsertDesc(sorted, e) ==
    IF sorted = <<>> THEN << e >>
    ELSE IF Head(sorted).start >= e.start
        THEN << Head(sorted) >> \o InsertDesc(Tail(sorted), e)
    ELSE << e >> \o sorted

RECURSIVE SortedEntities(_)
SortedEntities(es) ==
    IF es = <<>> THEN <<>>
    ELSE InsertDesc(SortedEntities(SubSeq(es, 1, Len(es) - 1)), es[Len(es)])

\* A slip in step 3: the tail is taken from end + 1
RewriteOffByOne(t, ent, map) ==
    PySlice(t, 0, ent.start) \o map[ent.text] \o PySlice(t, ent.end + 1, Len(t))

\* text[:start] + entity_map[ent['text']] + text[end:]
Rewrite(t, ent, map) ==
    PySlice(t, 0, ent.start) \o map[ent.text] \o PySlice(t, ent.end, Len(t))

\* Where the masker goes once a loop has run out of items
EnterSave(em) == IF DOMAIN em # {} THEN "save" ELSE "maskret"
EnterReplace(es, em) == IF Len(es) > 0 THEN "replace" ELSE EnterSave(em)
EnterRegex(ms, es, em) == IF Len(ms) > 0 THEN "regex" ELSE EnterReplace(es, em)
EnterNer(de, ms) == IF Len(de) > 0 THEN "ner" ELSE EnterRegex(ms, <<>>, EmptyMap)

\* The stored texts whose placeholder is numbered under label l
StoredUnder(f, l) ==
    { k \in DOMAIN f.mappings :
        \E n \in 1..Cardinality(DOMAIN f.mappings) : f.mappings[k] = Placeholder(l, n) }

\* A slip in the set-up: the numbering goes on from the persisted store
CounterFromStore(f) == [ l \in Labels |-> Cardinality(StoredUnder(f, l)) ]

\* Lines 64-71: every label's counter starts at 0, whatever the store holds
InitialCounter(f) == ZeroCounter

\* pipeline.py:59 calls pii_masker_func; nlp(text) runs and the locals are set up
MaskCall ==
    /\ pc = "mask"
    /\ \/ /\ pc' = "except"
          /\ exc' = "DetectionUnavailable"
          /\ UNCHANGED maskvars
       \/ \E de \in EntLists(0, Len(retrieved_chunks), MaxEnts) :
            /\ doc_ents' = de
            /\ matches' = RegexMatches(retrieved_chunks)
            /\ text' = retrieved_chunks
            /\ entity_counter' = InitialCounter(file)
            /\ entity_map' = EmptyMap
            /\ entities' = <<>>
            /\ existing_spans' = <<>>
            /\ idx' = 1
            /\ pc' = EnterNer(de, matches')
            /\ exc' = exc
    /\ UNCHANGED <<file, calls, retrieved_chunks, masked_chunks, result, loaded>>
    /\ steps' = Append(steps, "mask")
    /\ UNCHANGED <<context, othervars>>

\* One iteration of `for ent in doc.ents`
NerStep ==
    /\ pc = "ner"
    /\ LET ent == doc_ents[idx]
           ent_text == Strip(PySlice(text, ent.start, ent.end))
           a == Allocate(entity_map, entity_counter, ent_text, ent.label)
       IN  /\ IF ent.label \in StatLabels
              THEN /\ entity_map' = a.map
                   /\ entity_counter' = a.counter
                   /\ entities' = Append(entities,
                          [text |-> ent_text, label |-> ent.label,
                           start |-> ent.start, end |-> ent.end])
                   /\ existing_spans' = Append(existing_spans, << ent.start, ent.end >>)
              ELSE UNCHANGED <<entity_map, entity_counter, entities, existing_spans>>
           /\ IF idx < Len(doc_ents)
              THEN idx' = idx + 1 /\ pc' = "ner"
              ELSE idx' = 1 /\ pc' = EnterRegex(matches, entities', entity_map')
    /\ UNCHANGED <<file, calls, retrieved_chunks, doc_ents, matches, text, masked_chunks,
                   exc, result, loaded>>
    /\ UNCHANGED <<steps, context, othervars>>

\* One iteration of the two nested loops over regex_patterns and re.finditer
RegexStep ==
    /\ pc = "regex"
    /\ LET m == matches[idx]
           ent_text == PySlice(text, m.start, m.end)
           a == Allocate(entity_map, entity_counter, ent_text, m.label)
       IN  /\ IF OverlapsAny(m.start, m.end, existing_spans)
              THEN UNCHANGED <<entity_map, entity_counter, entities, existing_spans>>
              ELSE /\ entity_map' = a.map
                   /\ entity_counter' = a.counter
                   /\ entities' = Append(entities,
                          [text |-> ent_text, label |-> m.label,
                           start |-> m.start, end |-> m.end])
                   /\ existing_spans' = Append(existing_spans, << m.start, m.end >>)
           /\ IF idx < Len(matches)
              THEN idx' = idx + 1 /\ pc' = "regex"
              ELSE idx' = 1 /\ pc' = EnterReplace(entities', entity_map')
    /\ UNCHANGED <<file, calls, retrieved_chunks, doc_ents, matches, text, masked_chunks,
                   exc, result, loaded>>
    /\ UNCHANGED <<steps, context, othervars>>

\* One iteration of `for ent in entities_sorted`
ReplaceStep ==
    /\ pc = "replace"
    /\ LET ent == SortedEntities(entities)[idx]
       IN  IF ent.text \in DOMAIN entity_map
           THEN /\ text' = Rewrite(text, ent, entity_map)
                /\ exc' = exc
                /\ IF idx < Len(entities)
                   THEN idx' = idx + 1 /\ pc' = "replace"
                   ELSE idx' = 1 /\ pc' = EnterSave(entity_map)
           ELSE /\ pc' = "except"
                /\ exc' = "KeyError"
                /\ UNCHANGED <<text, idx>>
    /\ UNCHANGED <<file, calls, retrieved_chunks, doc_ents, matches, entity_counter,
                   entity_map, entities, existing_spans, masked_chunks, result,
                   loaded>>
    /\ UNCHANGED <<steps, context, othervars>>

(***************************************************************************)
(* The mapping store: mappings/entity_mappings.json.                       *)
(* kind is what the path holds:                                            *)
(*   "absent"       no file                                                *)
(*   "empty"        a file of zero bytes                                   *)
(*   "garbage"      bytes that are not JSON (a truncated write included)   *)
(*   "nonobject"    valid JSON that is no object (a list, a number, null)  *)
(*   "nomappings"   a JSON object without the key "mappings"               *)
(*   "badmappings"  a JSON object whose "mappings" is no object            *)
(*   "store"        {"timestamp": ..., "mappings": {...}}                  *)
(***************************************************************************)
StoreFile(k, m, ts) == [kind |-> k, mappings |-> m, timestamp |-> ts]

FileKinds ==
    { "absent", "empty", "garbage", "nonobject", "nomappings", "badmappings", "store" }

InitFiles == { StoreFile(k, EmptyMap, 0) : k \in FileKinds }

\* A slip in the merge: the stored value wins over the new one
DictUpdateKeepOld(old, new) ==
    [ k \in DOMAIN old \cup DOMAIN new |-> IF k \in DOMAIN old THEN old[k] ELSE new[k] ]

\* dict.update: existing_data["mappings"].update(entity_map)
DictUpdate(old, new) ==
    [ k \in DOMAIN old \cup DOMAIN new |-> IF k \in DOMAIN new THEN new[k] ELSE old[k] ]

\* save_mapping_to_file(entity_map) at time `now`: every way the call can end,
\* as the file it leaves and the exception it raises ("none": it returns).
SaveOutcomes(f, m, now) ==
    IF f.kind = "nonobject"
        \* existing_data["mappings"] on a list/number/null: TypeError, not caught
        THEN { [file |-> f, exc |-> "TypeError"] }
    ELSE IF f.kind = "badmappings"
        \* .update on a non-dict: AttributeError, not caught
        THEN { [file |-> f, exc |-> "AttributeError"] }
    ELSE
        LET written ==
                IF f.kind = "store"
                THEN StoreFile("store", DictUpdate(f.mappings, m), now)
                \* no file, or JSONDecodeError / KeyError caught: start fresh
                ELSE StoreFile("store", m, now)
        IN  \* open(file_path, 'w') + json.dump succeed
            { [file |-> written, exc |-> "none"] }
            \* open(file_path, 'w') fails: nothing is touched
            \cup { [file |-> f, exc |-> "OSError"] }
            \* the file is truncated by open and the write fails before or midway
            \cup { [file |-> StoreFile(k, EmptyMap, 0), exc |-> "OSError"] :
                     k \in { "empty", "garbage" } }

\* load_mapping_from_file(): the value returned (ismap: it is a dict) or the
\* exception raised
LoadOutcome(f) ==
    IF f.kind = "store"
        THEN [exc |-> "none", ismap |-> TRUE, value |-> f.mappings]
    ELSE IF f.kind \in { "absent", "empty", "garbage", "nomappings" }
        \* not os.path.exists / JSONDecodeError caught / data.get default
        THEN [exc |-> "none", ismap |-> TRUE, value |-> EmptyMap]
    ELSE IF f.kind = "nonobject"
        \* data.get on a list/number/null: AttributeError, not caught
        THEN [exc |-> "AttributeError", ismap |-> FALSE, value |-> EmptyMap]
    \* "badmappings": data.get("mappings", {}) hands back the non-dict value
    ELSE [exc |-> "none", ismap |-> FALSE, value |-> EmptyMap]

\* The clock read by datetime.now(): it advances from one request to the next
Now == calls

\* Step 4 of pii_masker_func: save_mapping_to_file(entity_map)
SaveStep ==
    /\ pc = "save"
    /\ \E o \in SaveOutcomes(file, entity_map, Now) :
         /\ file' = o.file
         /\ IF o.exc = "none"
            THEN pc' = "maskret" /\ exc' = exc
            ELSE pc' = "except" /\ exc' = o.exc
    /\ UNCHANGED <<calls, retrieved_chunks, masked_chunks, result, loaded>>
    /\ UNCHANGED maskvars
    /\ UNCHANGED <<steps, context, othervars>>

\* return text: the locals of pii_masker_func are gone, the caller has the text
MaskReturn ==
    /\ pc = "maskret"
    /\ masked_chunks' = text
    /\ pc' = "answer"
    /\ doc_ents' = <<>>
    /\ matches' = <<>>
    /\ text' = <<>>
    /\ entity_counter' = ZeroCounter
    /\ entity_map' = EmptyMap
    /\ entities' = <<>>
    /\ existing_spans' = <<>>
    /\ idx' = 1
    /\ UNCHANGED <<file, calls, retrieved_chunks, exc, result, loaded>>
    /\ UNCHANGED <<steps, context, othervars>>

(***************************************************************************)
(* RAGPipeline.process_query.                                              *)
(***************************************************************************)
Query == "q"
DocIds == << "d1" >>
NoResult == [status |-> "none"]

\* A slip in the handler: what the call had computed so far is handed back too
ErrorResultPartial(e) ==
    [status |-> "error", message |-> e, original_query |-> Query,
     processed_docs |-> DocIds, enriched_query |-> "enriched"]

ErrorResult(e) ==
    [status |-> "error", message |-> e, original_query |-> Query,
     processed_docs |-> DocIds]

SuccessResult(chunks, masked) ==
    [status |-> "success", original_query |-> Query, enriched_query |-> "enriched",
     retrieved_chunks |-> chunks, masked_chunks |-> masked, response |-> "response",
     retrieved_metadata |-> "metadata", processed_docs |-> DocIds]

\* The caller holds no call in progress
Ready == pc \in { "idle", "returned", "loaded" }

\* rag_pipeline.process_query(query, user_id, doc_ids) is entered
ProcessQuery ==
    /\ Ready
    /\ calls < MaxCalls
    /\ calls' = calls + 1
    /\ pc' = "enrich"
    /\ exc' = "none"
    /\ result' = NoResult
    /\ retrieved_chunks' = <<>>
    /\ masked_chunks' = <<>>
    /\ UNCHANGED <<file, loaded>>
    /\ UNCHANGED maskvars
    /\ steps' = <<>>
    /\ context' = <<>>
    /\ UNCHANGED othervars

\* Step 1: query_enricher_func returns or raises
Enrich ==
    /\ pc = "enrich"
    /\ \/ pc' = "retriever" /\ exc' = exc
       \/ pc' = "except" /\ exc' = "EnrichError"
    /\ UNCHANGED <<file, calls, retrieved_chunks, masked_chunks, result, loaded>>
    /\ UNCHANGED maskvars
    /\ steps' = Append(steps, "enrich")
    /\ UNCHANGED <<context, othervars>>

\* Step 2: document_manager.get_retriever_for_docs
GetRetriever ==
    /\ pc = "retriever"
    /\ \/ pc' = "retrieve" /\ exc' = exc
       \/ pc' = "except" /\ exc' = "RetrieverError"
    /\ UNCHANGED <<file, calls, retrieved_chunks, masked_chunks, result, loaded>>
    /\ UNCHANGED maskvars
    /\ steps' = Append(steps, "retriever")
    /\ UNCHANGED <<context, othervars>>

\* Step 3: document_retriever_func
RetrieveChunks ==
    /\ pc = "retrieve"
    /\ \/ \E c \in Chunks :
            /\ retrieved_chunks' = c
            /\ pc' = "metadata"
            /\ exc' = exc
       \/ /\ pc' = "except"
          /\ exc' = "RetrieveError"
          /\ UNCHANGED retrieved_chunks
    /\ UNCHANGED <<file, calls, masked_chunks, result, loaded>>
    /\ UNCHANGED maskvars
    /\ steps' = Append(steps, "retrieve")
    /\ UNCHANGED <<context, othervars>>

\* Step 3: get_retrieved_metadata
RetrieveMetadata ==
    /\ pc = "metadata"
    /\ \/ pc' = "mask" /\ exc' = exc
       \/ pc' = "except" /\ exc' = "MetadataError"
    /\ UNCHANGED <<file, calls, retrieved_chunks, masked_chunks, result, loaded>>
    /\ UNCHANGED maskvars
    /\ steps' = Append(steps, "metadata")
    /\ UNCHANGED <<context, othervars>>

\* A slip in step 5: the raw retrieved text is handed to the model
AnswerInputsRaw(chunks, masked) == chunks

\* The "context" of the dict handed to llm_answerer_func
AnswerInputs(chunks, masked) == masked

\* Step 5: llm_answerer_func, then the success dict is returned
Answer ==
    /\ pc = "answer"
    /\ \/ /\ result' = SuccessResult(retrieved_chunks, masked_chunks)
          /\ pc' = "returned"
          /\ exc' = exc
       \/ /\ pc' = "except"
          /\ exc' = "AnswerError"
          /\ UNCHANGED result
    /\ UNCHANGED <<file, calls, retrieved_chunks, masked_chunks, loaded>>
    /\ UNCHANGED maskvars
    /\ steps' = Append(steps, "answer")
    /\ context' = AnswerInputs(retrieved_chunks, masked_chunks)
    /\ UNCHANGED othervars

\* except Exception as e: the error dict is returned
Except ==
    /\ pc = "except"
    /\ result' = ErrorResult(exc)
    /\ pc' = "returned"
    /\ doc_ents' = <<>>
    /\ matches' = <<>>
    /\ text' = <<>>
    /\ entity_counter' = ZeroCounter
    /\ entity_map' = EmptyMap
    /\ entities' = <<>>
    /\ existing_spans' = <<>>
    /\ idx' = 1
    /\ UNCHANGED <<file, calls, retrieved_chunks, masked_chunks, exc, loaded>>
    /\ UNCHANGED <<steps, context, othervars>>

\* load_mapping_from_file() is called
Load ==
    /\ Ready
    /\ loaded' = LoadOutcome(file)
    /\ pc' = "loaded"
    /\ UNCHANGED <<file, calls, retrieved_chunks, masked_chunks, exc, result>>
    /\ UNCHANGED maskvars
    /\ UNCHANGED <<steps, context, othervars>>

(***************************************************************************)
(* save_mapping_to_file and load_mapping_from_file called from several     *)
(* threads at once.  The function holds no lock, so a call is four steps   *)
(* other callers can come between: the entry (lines 7-21), the read of the *)
(* existing file (24-34), open(file_path, 'w') (37), which truncates the   *)
(* file, and json.dump with the close that flushes it (38-40).             *)
(***************************************************************************)
Threads == { "t1", "t2" }

\* The entity maps the callers pass: one text of a chunk under its placeholder
ArgMaps ==
    { (w :> Placeholder(l, 1)) : w \in { <<"1", "%">>, <<"2", "%">> },
                                 l \in { "PERCENT", "MONEY" } }

\* The stores the callers find: none, or a well-formed one with one entry
InitStoreFiles ==
    { StoreFile("absent", EmptyMap, 0),
      StoreFile("store", (<<"1", "x">> :> Placeholder("RATIO", 1)), 0) }

\* By how many characters json.dump(..., indent=2) of a store grows with its
\* mappings: 2 for the line breaks of a non-empty object and, per entry, the
\* key, the value and 12 characters of indentation, quotes and separators
RECURSIVE JsonSize(_)
JsonSize(m) ==
    IF DOMAIN m = {} THEN 0
    ELSE LET k == CHOOSE x \in DOMAIN m : TRUE
             rest == [ j \in DOMAIN m \ { k } |-> m[j] ]
         IN  ( IF rest = EmptyMap THEN 2 ELSE 0 )
                 + Len(k) + Len(m[k]) + 12 + JsonSize(rest)

\* A slip in the merge: the existing file is not read, the call starts fresh
MergeExistingFresh(f, m, now) ==
    [exc |-> "none", data |-> StoreFile("store", m, now)]

\* A slip in the merge: .update(mapping_data), so the timestamp lands in the mappings
MergeExistingWholeRecord(f, m, now) ==
    IF f.kind = "store"
    THEN [exc |-> "none",
          data |-> StoreFile("store",
                       (<< "t", "s" >> :> IntToStr(now))
                           @@ DictUpdate(f.mappings, m), now)]
    ELSE [exc |-> "none",
          data |-> StoreFile("store", (<< "t", "s" >> :> IntToStr(now)) @@ m, now)]

\* Lines 18-34: mapping_data as it stands before the write, or the exception
\* the read raises
MergeExisting(f, m, now) ==
    IF f.kind = "store"
        THEN [exc |-> "none", data |-> StoreFile("store", DictUpdate(f.mappings, m), now)]
    ELSE IF f.kind = "nonobject"
        THEN [exc |-> "TypeError", data |-> StoreFile("store", m, now)]
    ELSE IF f.kind = "badmappings"
        THEN [exc |-> "AttributeError", data |-> StoreFile("store", m, now)]
    \* no file, or JSONDecodeError / KeyError caught: start fresh
    ELSE [exc |-> "none", data |-> StoreFile("store", m, now)]

\* What the bytes written by a close leave in the file: they go to offset 0,
\* over whatever another writer has put there since this writer's truncation,
\* and a longer remainder of that stays behind them
Written(f, data) ==
    IF f.kind = "store" /\ JsonSize(f.mappings) > JsonSize(data.mappings)
    THEN StoreFile("garbage", EmptyMap, 0)
    ELSE data

Running(t) == spc[t] \in { "read", "open", "dump" }

NoSaveYet ==
    [valid |-> FALSE, map |-> EmptyMap, alone |-> FALSE, repeat |-> FALSE,
     after_alone |-> FALSE, prev_map |-> EmptyMap,
     before |-> StoreFile("absent", EmptyMap, 0),
     after |-> StoreFile("absent", EmptyMap, 0)]

\* No save_mapping_to_file call of the concurrent callers has been made
NoSave ==
    /\ spc = [ t \in Threads |-> "idle" ]
    /\ sarg = [ t \in Threads |-> EmptyMap ]
    /\ mapping_data = [ t \in Threads |-> StoreFile("store", EmptyMap, 0) ]
    /\ alone = [ t \in Threads |-> TRUE ]
    /\ observed = [by |-> "none", kind |-> "absent", writing |-> FALSE]
    /\ last_save = NoSaveYet

pipevars == <<pc, retrieved_chunks, masked_chunks, exc, result, steps, context>>

\* Lines 7-21: thread t enters save_mapping_to_file(m)
SaveBegin(t) ==
    /\ ~Running(t)
    /\ calls < MaxCalls
    /\ \E m \in ArgMaps :
         /\ sarg' = [sarg EXCEPT ![t] = m]
         /\ mapping_data' = [mapping_data EXCEPT ![t] = StoreFile("store", m, calls + 1)]
    /\ calls' = calls + 1
    /\ spc' = [spc EXCEPT ![t] = "read"]
    /\ alone' = [ u \in Threads |->
                    IF u = t THEN \A v \in Threads \ { t } : ~Running(v)
                    ELSE IF Running(u) THEN FALSE
                    ELSE alone[u] ]
    /\ UNCHANGED <<file, loaded, observed, last_save>>
    /\ UNCHANGED <<pipevars, maskvars, apivars>>

\* Lines 24-34: the existing file is read and merged
SaveRead(t) ==
    /\ spc[t] = "read"
    /\ LET r == MergeExisting(file, sarg[t], Now)
       IN  /\ mapping_data' = [mapping_data EXCEPT ![t] = r.data]
           /\ spc' = [spc EXCEPT ![t] = IF r.exc = "none" THEN "open" ELSE "raised"]
    /\ observed' = [by |-> t, kind |-> file.kind,
                    writing |-> \E u \in Threads \ { t } : spc[u] = "dump"]
    /\ UNCHANGED <<file, calls, loaded, sarg, alone, last_save>>
    /\ UNCHANGED <<pipevars, maskvars, apivars>>

\* Line 37: open(file_path, 'w') truncates the file
SaveOpen(t) ==
    /\ spc[t] = "open"
    /\ file' = StoreFile("empty", EmptyMap, 0)
    /\ spc' = [spc EXCEPT ![t] = "dump"]
    /\ UNCHANGED <<calls, loaded, sarg, mapping_data, alone, observed, last_save>>
    /\ UNCHANGED <<pipevars, maskvars, apivars>>

\* Lines 38-40: json.dump, the close that flushes the text, return file_path
SaveDump(t) ==
    /\ spc[t] = "dump"
    /\ file' = Written(file, mapping_data[t])
    /\ spc' = [spc EXCEPT ![t] = "returned"]
    /\ last_save' =
         [valid |-> TRUE, map |-> sarg[t], alone |-> alone[t],
          after_alone |-> last_save.valid /\ last_save.alone /\ alone[t],
          prev_map |-> last_save.map,
          repeat |-> /\ last_save.valid
                     /\ alone[t]
                     /\ last_save.map = sarg[t]
                     /\ last_save.after.kind = "store",
          before |-> last_save.after,
          after |-> file']
    /\ UNCHANGED <<calls, loaded, sarg, mapping_data, alone, observed>>
    /\ UNCHANGED <<pipevars, maskvars, apivars>>

\* Lines 42-54: another thread calls load_mapping_from_file()
ConcurrentLoad ==
    /\ loaded' = LoadOutcome(file)
    /\ observed' = [by |-> "load", kind |-> file.kind,
                    writing |-> \E u \in Threads : spc[u] = "dump"]
    /\ UNCHANGED <<file, calls, spc, sarg, mapping_data, alone, last_save>>
    /\ UNCHANGED <<pipevars, maskvars, apivars>>

(***************************************************************************)
(* api/query.py: the /query endpoint.  session_service is a collaborator:  *)
(* a call to it returns or raises, and update_chat_log_response either     *)
(* writes the response of the chat log ("written"), reports that it could  *)
(* not ("failed", success false) or raises ("raised").                     *)
(***************************************************************************)
Docs == { "d1", "d2" }
DocStatuses == { "none", "processing", "failed", "completed" }
UpdateOutcomes == { "written", "failed", "raised" }

\* What rag_pipeline.process_query hands back: the success or the error dict
PipelineResults == { SuccessResult(<<>>, <<>>), ErrorResult("RetrieveError") }

flowvars == <<file, pc, calls, retrieved_chunks, masked_chunks, exc, steps, context, loaded>>

\* session_service.update_chat_log_response(chat_log_id, response) ending as o
UpdateChatLog(logs, id, response, o) ==
    [logs EXCEPT ![id] = Append(@, [response |-> response, outcome |-> o])]

\* The request arrives
QueryRequest ==
    /\ qpc \in { "idle", "done" }
    /\ calls < MaxCalls
    /\ calls' = calls + 1
    /\ qpc' = "validate"
    /\ chat_log_id' = 0
    /\ http_status' = 0
    /\ result' = NoResult
    /\ UNCHANGED <<file, pc, retrieved_chunks, masked_chunks, exc, steps, context, loaded>>
    /\ UNCHANGED <<chat_logs, maskvars, storevars, docvars>>

\* Lines 16-21: a missing field raises HTTPException(400) inside the try
Validate ==
    /\ qpc = "validate"
    /\ qpc' \in { "verify", "except" }
    /\ UNCHANGED <<chat_log_id, chat_logs, http_status, result>>
    /\ UNCHANGED <<flowvars, maskvars, storevars, docvars>>

\* Lines 24-25: verify_session; HTTPException(404) when it says no
VerifySession ==
    /\ qpc = "verify"
    /\ qpc' \in { "save_message", "except" }
    /\ UNCHANGED <<chat_log_id, chat_logs, http_status, result>>
    /\ UNCHANGED <<flowvars, maskvars, storevars, docvars>>

\* Lines 28-33: save_user_message; on success the chat log exists, without a
\* response, and chat_log_id is bound
SaveUserMessage ==
    /\ qpc = "save_message"
    /\ \/ /\ chat_logs' = Append(chat_logs, <<>>)
          /\ chat_log_id' = Len(chat_logs) + 1
          /\ qpc' = "check_docs"
       \/ /\ qpc' = "except"
          /\ UNCHANGED <<chat_log_id, chat_logs>>
    /\ UNCHANGED <<http_status, result>>
    /\ UNCHANGED <<flowvars, maskvars, storevars, docvars>>

\* Lines 36-45: a requested document whose status is processing or failed
NotReadyDocs ==
    { DocIds[k] : k \in { j \in 1..Len(DocIds) :
                            document_status[DocIds[j]] \in { "processing", "failed" } } }

CheckDocuments ==
    /\ qpc = "check_docs"
    /\ qpc' = IF NotReadyDocs # {} THEN "not_ready" ELSE "pipeline"
    /\ UNCHANGED <<chat_log_id, chat_logs, http_status, result>>
    /\ UNCHANGED <<flowvars, maskvars, storevars, docvars>>

\* Lines 47-63: the chat log gets the not-ready text, 202 is returned
NotReady ==
    /\ qpc = "not_ready"
    /\ \E o \in UpdateOutcomes :
         /\ chat_logs' = UpdateChatLog(chat_logs, chat_log_id, "not_ready", o)
         /\ IF o = "raised"
            THEN qpc' = "except" /\ http_status' = http_status
            ELSE qpc' = "done" /\ http_status' = 202
    /\ UNCHANGED <<chat_log_id, result>>
    /\ UNCHANGED <<flowvars, maskvars, storevars, docvars>>

\* Lines 66-71: rag_pipeline.process_query returns its dict
QueryPipeline ==
    /\ qpc = "pipeline"
    /\ \E r \in PipelineResults :
         /\ result' = r
         /\ qpc' = IF r.status = "success" THEN "success" ELSE "error"
    /\ UNCHANGED <<chat_log_id, chat_logs, http_status>>
    /\ UNCHANGED <<flowvars, maskvars, storevars, docvars>>

\* Lines 73-100: the chat log gets the answer, 200 is returned (with a warning
\* when the update reports failure)
OnSuccess ==
    /\ qpc = "success"
    /\ \E o \in UpdateOutcomes :
         /\ chat_logs' = UpdateChatLog(chat_logs, chat_log_id, "response", o)
         /\ IF o = "raised"
            THEN qpc' = "except" /\ http_status' = http_status
            ELSE qpc' = "done" /\ http_status' = 200
    /\ UNCHANGED <<chat_log_id, result>>
    /\ UNCHANGED <<flowvars, maskvars, storevars, docvars>>

\* Lines 101-107: the chat log gets the pipeline's error text, then
\* HTTPException(500) is raised, inside the try
OnError ==
    /\ qpc = "error"
    /\ \E o \in UpdateOutcomes :
         chat_logs' = UpdateChatLog(chat_logs, chat_log_id, "pipeline_error", o)
    /\ qpc' = "except"
    /\ UNCHANGED <<chat_log_id, http_status, result>>
    /\ UNCHANGED <<flowvars, maskvars, storevars, docvars>>

\* Lines 109-116: except Exception (HTTPException is one): with chat_log_id in
\* locals() the chat log gets the apology; HTTPException(500) leaves the endpoint
QueryExcept ==
    /\ qpc = "except"
    /\ IF chat_log_id # 0
       THEN \E o \in UpdateOutcomes :
              chat_logs' = UpdateChatLog(chat_logs, chat_log_id, "apology", o)
       ELSE UNCHANGED chat_logs
    /\ http_status' = 500
    /\ qpc' = "done"
    /\ UNCHANGED <<chat_log_id, result>>
    /\ UNCHANGED <<flowvars, maskvars, storevars, docvars>>

(***************************************************************************)
(* api/documents.py: process_document_background, one task per document.   *)
(***************************************************************************)
NotDone ==
    [uploaded |-> FALSE, added |-> FALSE, saved |-> FALSE, cleanups |-> 0,
     remove_failed |-> FALSE]

restvars == <<flowvars, result, maskvars, storevars, queryvars>>

\* document_service.cleanup_local_file: os.remove, its failure printed and dropped
Removed == { [file |-> "removed", failed |-> FALSE], [file |-> "present", failed |-> TRUE] }

\* document_service.delete_from_storage: the object goes, or the failure is dropped
Deleted(st) == IF st = "stored" THEN { "deleted", "stored" } ELSE { st }

\* A slip in the branch on result["status"]: the failure of add_document is passed over
AddBranchAlways(status) == "save"

\* Line 41: if result["status"] == "success"
AddBranch(status) == IF status = "success" THEN "save" ELSE "add_failed"

\* Line 21: the task starts, the status becomes "processing"
DocStart(d) ==
    /\ dpc[d] = "idle"
    /\ document_status' = [document_status EXCEPT ![d] = "processing"]
    /\ dpc' = [dpc EXCEPT ![d] = "upload"]
    /\ UNCHANGED <<local_file, storage, doc_done, restvars>>

\* Lines 24-31, 66: upload_file_to_storage answers True or False
DocUpload(d) ==
    /\ dpc[d] = "upload"
    /\ \/ /\ storage' = [storage EXCEPT ![d] = "stored"]
          /\ doc_done' = [doc_done EXCEPT ![d].uploaded = TRUE]
          /\ dpc' = [dpc EXCEPT ![d] = "add"]
       \/ /\ dpc' = [dpc EXCEPT ![d] = "except"]
          /\ UNCHANGED <<storage, doc_done>>
    /\ UNCHANGED <<document_status, local_file, restvars>>

\* Lines 33-41: rag_pipeline.add_document returns its dict or raises
DocAdd(d) ==
    /\ dpc[d] = "add"
    /\ \/ \E status \in { "success", "error" } :
            /\ dpc' = [dpc EXCEPT ![d] = AddBranch(status)]
            /\ doc_done' = [doc_done EXCEPT ![d].added = (status = "success")]
       \/ /\ dpc' = [dpc EXCEPT ![d] = "except"]
          /\ UNCHANGED doc_done
    /\ UNCHANGED <<document_status, local_file, storage, restvars>>

\* Lines 62-64: add_document reported a failure
DocAddFailed(d) ==
    /\ dpc[d] = "add_failed"
    /\ document_status' = [document_status EXCEPT ![d] = "failed"]
    /\ \E st \in Deleted(storage[d]) : storage' = [storage EXCEPT ![d] = st]
    /\ dpc' = [dpc EXCEPT ![d] = "cleanup"]
    /\ UNCHANGED <<local_file, doc_done, restvars>>

\* Lines 43-60: the metadata is saved, the document linked, the status "completed"
DocSave(d) ==
    /\ dpc[d] = "save"
    /\ \/ /\ doc_done' = [doc_done EXCEPT ![d].saved = TRUE]
          /\ \/ /\ document_status' = [document_status EXCEPT ![d] = "completed"]
                /\ dpc' = [dpc EXCEPT ![d] = "cleanup"]
             \* link_document_to_session raises
             \/ /\ dpc' = [dpc EXCEPT ![d] = "except"]
                /\ UNCHANGED document_status
       \* save_document_to_supabase answers False: line 60 raises
       \/ /\ dpc' = [dpc EXCEPT ![d] = "except"]
          /\ UNCHANGED <<document_status, doc_done>>
    /\ UNCHANGED <<local_file, storage, restvars>>

\* Line 69: cleanup_local_file, then the task returns
DocCleanup(d) ==
    /\ dpc[d] = "cleanup"
    /\ \E r \in Removed :
         /\ local_file' = [local_file EXCEPT ![d] = r.file]
         /\ doc_done' = [doc_done EXCEPT ![d].cleanups = @ + 1,
                                         ![d].remove_failed = r.failed]
    /\ dpc' = [dpc EXCEPT ![d] = "returned"]
    /\ UNCHANGED <<document_status, storage, restvars>>

\* Lines 71-76: except Exception: "failed", cleanup_local_file, delete_from_storage
DocExcept(d) ==
    /\ dpc[d] = "except"
    /\ document_status' = [document_status EXCEPT ![d] = "failed"]
    /\ \E r \in Removed :
         /\ local_file' = [local_file EXCEPT ![d] = r.file]
         /\ doc_done' = [doc_done EXCEPT ![d].cleanups = @ + 1,
                                         ![d].remove_failed = r.failed]
    /\ \E st \in Deleted(storage[d]) : storage' = [storage EXCEPT ![d] = st]
    /\ dpc' = [dpc EXCEPT ![d] = "returned"]
    /\ UNCHANGED restvars

\* No request is in the endpoint
NoRequest ==
    /\ qpc = "idle"
    /\ chat_log_id = 0
    /\ chat_logs = <<>>
    /\ http_status = 0

\* The documents are uploaded to file_path, their background tasks not started
NoTask ==
    /\ dpc = [ d \in Docs |-> "idle" ]
    /\ local_file = [ d \in Docs |-> "present" ]
    /\ storage = [ d \in Docs |-> "none" ]
    /\ doc_done = [ d \in Docs |-> NotDone ]

NoApi ==
    /\ NoRequest
    /\ NoTask
    /\ document_status = [ d \in Docs |-> "none" ]

(***************************************************************************)
(* Specifications.                                                         *)
(***************************************************************************)
NoPipelineCall ==
    /\ doc_ents = <<>>
    /\ matches = <<>>
    /\ text = <<>>
    /\ entity_counter = ZeroCounter
    /\ entity_map = EmptyMap
    /\ entities = <<>>
    /\ existing_spans = <<>>
    /\ idx = 1
    /\ masked_chunks = <<>>
    /\ exc = "none"
    /\ result = NoResult
    /\ steps = <<>>
    /\ context = <<>>
    /\ loaded = LoadOutcome(StoreFile("absent", EmptyMap, 0))

NoCall ==
    /\ NoPipelineCall
    /\ NoSave
    /\ NoApi

\* The service: requests one after the other against the store it finds
Init ==
    /\ file \in InitFiles
    /\ pc = "idle"
    /\ calls = 0
    /\ retrieved_chunks = <<>>
    /\ NoCall

Next ==
    \/ ProcessQuery
    \/ Enrich
    \/ GetRetriever
    \/ RetrieveChunks
    \/ RetrieveMetadata
    \/ MaskCall
    \/ NerStep
    \/ RegexStep
    \/ ReplaceStep
    \/ SaveStep
    \/ MaskReturn
    \/ Answer
    \/ Except
    \/ Load

Spec == Init /\ [][Next]_vars

\* One call pii_masker_func(text), for every text of up to MaxTokens words
InitMask ==
    /\ file = StoreFile("absent", EmptyMap, 0)
    /\ pc = "mask"
    /\ calls = 1
    /\ retrieved_chunks \in Texts(MaxTokens)
    /\ NoCall

NextMask ==
    \/ MaskCall
    \/ NerStep
    \/ RegexStep
    \/ ReplaceStep
    \/ SaveStep
    \/ MaskReturn

SpecMask == InitMask /\ [][NextMask]_vars

\* Threads calling save_mapping_to_file and load_mapping_from_file at will
InitStore ==
    /\ file \in InitStoreFiles
    /\ pc = "idle"
    /\ calls = 0
    /\ retrieved_chunks = <<>>
    /\ NoCall

NextStore ==
    \/ \E t \in Threads : SaveBegin(t)
    \/ \E t \in Threads : SaveRead(t)
    \/ \E t \in Threads : SaveOpen(t)
    \/ \E t \in Threads : SaveDump(t)
    \/ ConcurrentLoad

SpecStore == InitStore /\ [][NextStore]_vars

\* /query requests one after the other, the documents in any status
InitQuery ==
    /\ file = StoreFile("absent", EmptyMap, 0)
    /\ pc = "idle"
    /\ calls = 0
    /\ retrieved_chunks = <<>>
    /\ NoPipelineCall
    /\ NoSave
    /\ NoRequest
    /\ NoTask
    /\ document_status \in [Docs -> DocStatuses]

NextQuery ==
    \/ QueryRequest
    \/ Validate
    \/ VerifySession
    \/ SaveUserMessage
    \/ CheckDocuments
    \/ NotReady
    \/ QueryPipeline
    \/ OnSuccess
    \/ OnError
    \/ QueryExcept

SpecQuery == InitQuery /\ [][NextQuery]_vars

\* The background tasks of the uploaded documents, run side by side
InitDoc ==
    /\ file = StoreFile("absent", EmptyMap, 0)
    /\ pc = "idle"
    /\ calls = 0
    /\ retrieved_chunks = <<>>
    /\ NoCall

NextDoc ==
    \/ \E d \in Docs : DocStart(d)
    \/ \E d \in Docs : DocUpload(d)
    \/ \E d \in Docs : DocAdd(d)
    \/ \E d \in Docs : DocAddFailed(d)
    \/ \E d \in Docs : DocSave(d)
    \/ \E d \in Docs : DocCleanup(d)
    \/ \E d \in Docs : DocExcept(d)

SpecDoc == InitDoc /\ [][NextDoc]_vars

(***************************************************************************)
(* Properties.  The operators below are vocabulary for stating them.       *)
(***************************************************************************)
\* The locals of a pii_masker_func call exist
InCall == pc \in { "ner", "regex", "replace", "save", "maskret" }

\* Step 3 has run to its end: `text` is the masked text the call returns
RewriteDone == pc \in { "save", "maskret" }

\* The offsets of a half-open range [start, end)
Range(e) == e.start..(e.end - 1)

\* The spans of doc.ents the masker keeps, in order
KeptEnts == SelectSeq(doc_ents, LAMBDA e : e.label \in StatLabels)

\* By how much the replacements left of offset i have lengthened the text
RECURSIVE Growth(_, _, _)
Growth(es, em, i) ==
    IF es = <<>> THEN 0
    ELSE ( IF Head(es).end <= i
           THEN Len(em[Head(es).text]) - (Head(es).end - Head(es).start)
           ELSE 0 ) + Growth(Tail(es), em, i)

\* Offset i of the input lies in an accepted range
Covered(i) == \E p \in 1..Len(entities) : i \in Range(entities[p])

\* The left-to-right reference: untouched gaps and placeholders, concatenated
RECURSIVE Reference(_, _, _, _)
Reference(orig, pos, spans, em) ==
    IF spans = {} THEN SubSeq(orig, pos + 1, Len(orig))
    ELSE LET e == CHOOSE x \in spans : \A y \in spans : x.start <= y.start
         IN  SubSeq(orig, pos + 1, e.start) \o em[e.text]
                 \o Reference(orig, e.end, spans \ { e }, em)

\* entities[p] is the first accepted span with its surface text
FirstAccepted(p) == \A q \in 1..(p - 1) : entities[q].text # entities[p].text

\* How many distinct texts were first accepted under entities[p]'s label, up to p
Rank(p) ==
    Cardinality({ q \in 1..p : FirstAccepted(q) /\ entities[q].label = entities[p].label })

\* Where the placeholder of entities[p] sits in the masked text
Segment(p) ==
    LET at == entities[p].start + Growth(entities, entity_map, entities[p].start)
    IN  SubSeq(text, at + 1, at + Len(entity_map[entities[p].text]))

\* C1 (non-overlap): at every point of a masking call, no two spans of the
\* accepted list `entities` have intersecting half-open ranges [start, end).
C1_NonOverlap ==
    \A p, q \in 1..Len(entities) :
        p # q => Range(entities[p]) \cap Range(entities[q]) = {}

\* Two spans are accepted and a regex match was turned down for overlapping one
C1_Witness ==
    /\ pc = "replace"
    /\ Len(entities) >= 2
    /\ \E k \in 1..Len(matches), p \in 1..Len(entities) :
         /\ Range(matches[k]) \cap Range(entities[p]) # {}
         /\ << matches[k].start, matches[k].end >>
                # << entities[p].start, entities[p].end >>

\* C2 (round-trip length safety): the rewrite never raises (no KeyError on
\* entity_map), and once it is done every character of the input outside all
\* accepted ranges stands unchanged in the masked text, moved only by the
\* growth of the replacements to its left (so the order is kept).
C2_RewriteSafe ==
    /\ exc # "KeyError"
    /\ RewriteDone =>
         \A i \in 0..(Len(retrieved_chunks) - 1) :
             ~Covered(i) =>
                 At(text, i + Growth(entities, entity_map, i)) = retrieved_chunks[i + 1]

\* Two spans were replaced and an untouched character to their right survived
C2_Witness ==
    /\ RewriteDone
    /\ Len(entities) >= 2
    /\ \E i \in 0..(Len(retrieved_chunks) - 1) :
         /\ ~Covered(i)
         /\ \A p \in 1..Len(entities) : entities[p].end <= i

\* C3: the masked text equals the input with each accepted range replaced by
\* the placeholder entity_map holds for the span's text: the right-to-left
\* in-place rewrite gives what the left-to-right reference gives.
C3_RewriteIsReference ==
    RewriteDone =>
        text = Reference(retrieved_chunks, 0,
                         { entities[p] : p \in 1..Len(entities) }, entity_map)

\* A statistical span and a ratio match were both replaced, by different placeholders
C3_Witness ==
    /\ RewriteDone
    /\ Len(KeptEnts) >= 1
    /\ \E p, q \in 1..Len(entities) :
         /\ entities[p].label = "RATIO"
         /\ entities[q].start < entities[p].start
         /\ entity_map[entities[p].text] # entity_map[entities[q].text]

\* C4 (priority): every kept statistical span stays in `entities`, no regex
\* match that intersects one is ever accepted (identical range included), and
\* the step that turns such a match down changes no counter, allocates no
\* placeholder and adds no span to replace.
C4_StatisticalPriority ==
    /\ [](pc \in { "regex", "replace", "save", "maskret" } =>
            /\ Len(entities) >= Len(KeptEnts)
            /\ \A k \in 1..Len(KeptEnts) :
                 /\ entities[k].start = KeptEnts[k].start
                 /\ entities[k].end = KeptEnts[k].end
                 /\ entities[k].label = KeptEnts[k].label
            /\ \A p \in (Len(KeptEnts) + 1)..Len(entities) :
                 \A k \in 1..Len(KeptEnts) :
                     Range(entities[p]) \cap Range(KeptEnts[k]) = {})
    /\ [][ ( /\ pc = "regex"
             /\ \E k \in 1..Len(KeptEnts) :
                  Range(matches[idx]) \cap Range(KeptEnts[k]) # {} )
           => ( /\ entity_counter' = entity_counter
                /\ entity_map' = entity_map
                /\ entities' = entities ) ]_vars

\* A regex match over exactly the range of a kept statistical span was turned
\* down, next to a second kept span it does not touch
C4_Witness ==
    /\ pc = "replace"
    /\ Len(KeptEnts) = 2
    /\ Len(entities) = 2
    /\ \E k \in 1..Len(matches), j \in 1..Len(KeptEnts) :
         /\ matches[k].start = KeptEnts[j].start
         /\ matches[k].end = KeptEnts[j].end

\* C5 (stability within a call): an entity_map entry, once made, is never
\* reassigned or dropped while the call runs, and in the masked text any two
\* accepted spans with the same surface text are replaced by the same
\* placeholder, whatever their labels.
C5_StableWithinCall ==
    /\ [](RewriteDone =>
            \A p, q \in 1..Len(entities) :
                entities[p].text = entities[q].text => Segment(p) = Segment(q))
    /\ [][ (InCall /\ pc' # "answer") =>
               \A t \in DOMAIN entity_map :
                   t \in DOMAIN entity_map' /\ entity_map'[t] = entity_map[t] ]_vars

\* The same text was accepted twice, under two different labels
C5_Witness ==
    /\ RewriteDone
    /\ \E p, q \in 1..Len(entities) :
         /\ entities[p].text = entities[q].text
         /\ entities[p].label # entities[q].label

\* C6 (monotonic numbering): within a call, the Nth distinct surface text
\* first accepted under a label holds the placeholder "[LABEL_N]", N from 1,
\* in acceptance order (statistical spans first, then regex matches).
C6_MonotonicNumbering ==
    InCall =>
        \A p \in 1..Len(entities) :
            FirstAccepted(p) =>
                entity_map[entities[p].text] = Placeholder(entities[p].label, Rank(p))

\* A regex match became the second distinct text of a label whose first text
\* came from the statistical detector
C6_Witness ==
    /\ InCall
    /\ \E p \in (Len(KeptEnts) + 1)..Len(entities) :
         /\ FirstAccepted(p)
         /\ Rank(p) = 2
         /\ \E k \in 1..Len(KeptEnts) : entities[k].label = entities[p].label

\* C7 (the claim as stated): the persisted mappings are reversible: no two
\* distinct original texts of the store hold the same placeholder.
C7_StoreReversible ==
    file.kind = "store" =>
        \A t1, t2 \in DOMAIN file.mappings :
            t1 # t2 => file.mappings[t1] # file.mappings[t2]

\* C8 (the claim as stated): a request in which the write of the store failed
\* (the OSError raised by save_mapping_to_file) does not leave
\* pii_masker_func by that exception and ends in a success result.
C8_PersistFailureSwallowed ==
    exc = "OSError" =>
        /\ pc # "except"
        /\ pc = "returned" => result.status = "success"

\* C9 (the claim as stated): whatever the store file holds,
\* load_mapping_from_file returns a mapping without raising, the empty one
\* unless the file is a well-formed store.
C9_LoadFailsOpen ==
    pc = "loaded" =>
        /\ loaded.exc = "none"
        /\ loaded.ismap
        /\ file.kind # "store" => loaded.value = EmptyMap

\* C10 (persist merges by union): a save_mapping_to_file(m) that returns, on a
\* store whose mappings are S (none when there is no file), leaves the
\* mappings S overridden by m: every key of m with m's value, every other key
\* of S with its old value, and no other key; no other step writes the file,
\* so no stored key disappears over a sequence of such calls.
C10_PersistMergesByUnion ==
    [][ /\ ( pc = "save" /\ pc' = "maskret" /\ file.kind \in { "store", "absent" } ) =>
             /\ file'.kind = "store"
             /\ DOMAIN file'.mappings = DOMAIN file.mappings \cup DOMAIN entity_map
             /\ \A k \in DOMAIN entity_map : file'.mappings[k] = entity_map[k]
             /\ \A k \in DOMAIN file.mappings \ DOMAIN entity_map :
                    file'.mappings[k] = file.mappings[k]
        /\ pc # "save" => file' = file ]_vars

\* A second request's save has kept a key of the first and added its own
C10_Witness ==
    /\ pc = "maskret"
    /\ calls = 2
    /\ file.kind = "store"
    /\ DOMAIN file.mappings \ DOMAIN entity_map # {}
    /\ \E k \in DOMAIN entity_map : file.mappings[k] = entity_map[k]

\* The steps of process_query in the order of its body
StepOrder == << "enrich", "retriever", "retrieve", "metadata", "mask", "answer" >>

\* C12 (two terminal results): a process_query call returns either the error
\* dict, exactly when a step raised, holding the status, the exception's
\* message, the original query and the requested doc_ids and none of the
\* success fields, or the success dict with all its fields, only when no step
\* raised; it has no result before it returns.
C12_TwoTerminalResults ==
    /\ pc = "returned" =>
         IF exc # "none"
         THEN /\ result.status = "error"
              /\ DOMAIN result = { "status", "message", "original_query", "processed_docs" }
              /\ result.message = exc
              /\ result.original_query = Query
              /\ result.processed_docs = DocIds
         ELSE /\ result.status = "success"
              /\ steps = StepOrder
              /\ DOMAIN result = { "status", "original_query", "enriched_query",
                                   "retrieved_chunks", "masked_chunks", "response",
                                   "retrieved_metadata", "processed_docs" }
    /\ pc \in { "enrich", "retriever", "retrieve", "metadata", "mask", "answer",
                "except" } \cup { "ner", "regex", "replace", "save", "maskret" }
         => result = NoResult

\* A call whose last step, answer generation, raised after chunks were
\* retrieved and masked has returned the error dict
C12_Witness ==
    /\ pc = "returned"
    /\ exc = "AnswerError"
    /\ result.status = "error"
    /\ masked_chunks # <<>>

\* C13 (order of the steps): the steps a call has invoked are always an
\* initial part of enrichment, retriever, retrieval, metadata, masking,
\* answer generation (fixed order, none twice); answer generation is invoked
\* only from the point where masking has returned, with the masked text as
\* its context, and not at all when an earlier step, the detector inside
\* masking included, has raised.
C13_StepOrder ==
    /\ [](/\ Len(steps) <= Len(StepOrder)
          /\ steps = SubSeq(StepOrder, 1, Len(steps))
          /\ Len(steps) = Len(StepOrder) =>
               /\ context = masked_chunks
               /\ exc \in { "none", "AnswerError" })
    /\ [][ Len(steps') = Len(StepOrder) /\ Len(steps) < Len(StepOrder)
             => /\ pc = "answer"
                /\ exc = "none"
                /\ context' = masked_chunks ]_vars
    /\ [][ pc' = "answer" => pc = "maskret" /\ masked_chunks' = text ]_vars

\* Answer generation has run on a masked text that differs from the raw chunk
C13_Witness ==
    /\ pc = "returned"
    /\ result.status = "success"
    /\ steps = StepOrder
    /\ context # retrieved_chunks

\* Every entry of map m stands in map s with m's value
Contains(s, m) == \A k \in DOMAIN m : k \in DOMAIN s /\ s[k] = m[k]

\* C11 (idempotence of persistence): when save_mapping_to_file(m) returns and
\* is called again with the same m, nothing else touching the store in
\* between, the second call leaves a store whose mappings equal the mappings
\* the first call left: no entry added, dropped or altered.  The timestamp
\* is free to differ.
C11_PersistIdempotent ==
    last_save.repeat =>
        /\ last_save.after.kind = "store"
        /\ last_save.after.mappings = last_save.before.mappings

\* The second of two equal calls has returned on a store that held another
\* entry before them, and has moved the timestamp
C11_Witness ==
    /\ last_save.repeat
    /\ DOMAIN last_save.before.mappings # DOMAIN last_save.map
    /\ last_save.after.timestamp # last_save.before.timestamp

\* C14 (no mutual exclusion, sequential half): when two calls on maps with
\* disjoint keys run one after the other, neither while another save is in
\* progress, the store the second leaves holds the entries of both.  (The
\* concurrent half, a final store that lacks one call's entries, is the
\* state C14_Witness describes.)
C14_SequentialKeepsBoth ==
    ( /\ last_save.after_alone
      /\ DOMAIN last_save.map \cap DOMAIN last_save.prev_map = {} )
    => /\ last_save.after.kind = "store"
       /\ Contains(last_save.after.mappings, last_save.map)
       /\ Contains(last_save.after.mappings, last_save.prev_map)

\* Two interleaved calls on disjoint maps have both returned and the store,
\* well-formed, lacks the entries of one of them: the last write won
C14_Witness ==
    \E t, u \in Threads :
        /\ t # u
        /\ spc[t] = "returned" /\ spc[u] = "returned"
        /\ calls = 2
        /\ ~alone[t]
        /\ DOMAIN sarg[t] \cap DOMAIN sarg[u] = {}
        /\ file.kind = "store"
        /\ Contains(file.mappings, sarg[u])
        /\ ~Contains(file.mappings, sarg[t])

\* C15 (the claim as stated): a load_mapping_from_file or save_mapping_to_file
\* that reads the file while another save has it open for writing never finds
\* it truncated or partly written (so it never takes the store for an empty
\* or corrupted one).
C15_NoTornRead ==
    observed.writing => observed.kind \notin { "empty", "garbage" }

\* The masker as a function of the input text and doc.ents alone: the spans
\* are accepted from a fresh map and zeroed counters, the text is put together
\* left to right
FreshCall == [map |-> EmptyMap, counter |-> ZeroCounter, entities |-> <<>>, spans |-> <<>>]

Accept(st, ent_text, label, start, end) ==
    LET a == Allocate(st.map, st.counter, ent_text, label)
    IN  [map |-> a.map, counter |-> a.counter,
         entities |-> Append(st.entities,
                         [text |-> ent_text, label |-> label, start |-> start, end |-> end]),
         spans |-> Append(st.spans, << start, end >>)]

RECURSIVE PureNer(_, _, _)
PureNer(t, de, st) ==
    IF de = <<>> THEN st
    ELSE LET e == Head(de)
         IN  PureNer(t, Tail(de),
                 IF e.label \in StatLabels
                 THEN Accept(st, Strip(PySlice(t, e.start, e.end)), e.label, e.start, e.end)
                 ELSE st)

RECURSIVE PureRegex(_, _, _)
PureRegex(t, ms, st) ==
    IF ms = <<>> THEN st
    ELSE LET m == Head(ms)
         IN  PureRegex(t, Tail(ms),
                 IF OverlapsAny(m.start, m.end, st.spans) THEN st
                 ELSE Accept(st, PySlice(t, m.start, m.end), m.label, m.start, m.end))

PureMask(t, de) ==
    LET st == PureRegex(t, RegexMatches(t), PureNer(t, de, FreshCall))
    IN  [text |-> Reference(t, 0, { st.entities[p] : p \in 1..Len(st.entities) }, st.map),
         map |-> st.map]

\* C16 (counters are per call): every pii_masker_func call sets out with all
\* counters at 0 and an empty entity_map, and the masked text and entity_map
\* it ends with are a function of its input text and doc.ents alone: the same
\* for every earlier call and every content of the mapping store.
C16_CountersPerCall ==
    /\ [](pc = "maskret" =>
            /\ text = PureMask(retrieved_chunks, doc_ents).text
            /\ entity_map = PureMask(retrieved_chunks, doc_ents).map)
    /\ [][ pc = "mask" /\ pc' # "except" =>
             /\ entity_counter' = ZeroCounter
             /\ entity_map' = EmptyMap ]_vars

\* A second call has given a text the placeholder the store already holds for
\* another text of the first call
C16_Witness ==
    /\ pc = "maskret"
    /\ calls = 2
    /\ file.kind = "store"
    /\ \E k \in DOMAIN file.mappings, t \in DOMAIN entity_map :
         /\ t # k
         /\ file.mappings[k] = entity_map[t]

\* The rule (index into regex_patterns) a match comes from
RuleOf(m) == CHOOSE r \in 1..Len(RegexLabels) : RegexLabels[r] = m.label

\* The spans accepted from the regex rules, in acceptance order
RegexAccepted == SubSeq(entities, Len(KeptEnts) + 1, Len(entities))

\* Position of match k among the accepted regex spans, 0 when it was turned down
AcceptedAt(k) ==
    IF \E p \in 1..Len(RegexAccepted) :
           /\ RegexAccepted[p].start = matches[k].start
           /\ RegexAccepted[p].end = matches[k].end
           /\ RegexAccepted[p].label = matches[k].label
    THEN CHOOSE p \in 1..Len(RegexAccepted) :
           /\ RegexAccepted[p].start = matches[k].start
           /\ RegexAccepted[p].end = matches[k].end
           /\ RegexAccepted[p].label = matches[k].label
    ELSE 0

OverlapsKept(m) == \E k \in 1..Len(KeptEnts) : Range(m) \cap Range(KeptEnts[k]) # {}

Placeholders == { entity_map[t] : t \in DOMAIN entity_map }

\* C18: between any two iterations of a pii_masker_func call, entity_map is
\* injective and the placeholders it holds are, for each label, exactly
\* "[LABEL_1]" .. "[LABEL_n]" with n the label's counter: no gap, no repeat.
C18_InjectiveGapless ==
    InCall =>
        /\ \A t1, t2 \in DOMAIN entity_map :
             t1 # t2 => entity_map[t1] # entity_map[t2]
        /\ Placeholders =
             UNION { { Placeholder(l, n) : n \in 1..entity_counter[l] } : l \in Labels }

\* Two texts are numbered 1 and 2 under one label and a third under another
C18_Witness ==
    /\ InCall
    /\ \E l1, l2 \in Labels :
         /\ l1 # l2
         /\ entity_counter[l1] = 2
         /\ entity_counter[l2] = 1

\* The update_chat_log_response calls made for the request's chat log
Updates == IF chat_log_id = 0 THEN <<>> ELSE chat_logs[chat_log_id]

\* C19 (the claim as stated): when a request whose user message was saved is
\* over and every update_chat_log_response call it made wrote the response,
\* it made exactly one such call: the response was written once.
C19_ResponseWrittenOnce ==
    ( /\ qpc = "done"
      /\ chat_log_id # 0
      /\ \A k \in 1..Len(Updates) : Updates[k].outcome = "written" )
    => Len(Updates) = 1

\* C20: when process_document_background has returned, the document's status
\* is "completed" or "failed" (not "processing"); it is "completed" only if
\* the upload to storage, add_document and the save of the metadata all
\* succeeded; and cleanup_local_file has run, so the local file is gone unless
\* os.remove itself failed.
C20_BackgroundTerminal ==
    \A d \in Docs :
        dpc[d] = "returned" =>
            /\ document_status[d] \in { "completed", "failed" }
            /\ document_status[d] = "completed" =>
                 doc_done[d].uploaded /\ doc_done[d].added /\ doc_done[d].saved
            /\ doc_done[d].cleanups = 1
            /\ ~doc_done[d].remove_failed => local_file[d] = "removed"

\* One task has returned "completed" and another "failed" after its upload
\* had succeeded, both with the local file removed
C20_Witness ==
    \E d, e \in Docs :
        /\ dpc[d] = "returned" /\ dpc[e] = "returned"
        /\ document_status[d] = "completed"
        /\ document_status[e] = "failed"
        /\ doc_done[e].uploaded
        /\ local_file[d] = "removed" /\ local_file[e] = "removed"

====
